---- MODULE Spec2Model ----
(***************************************************************************)
(* Model of the Synthia note-event-to-waveform synthesis engine            *)
(* (src/src/audio/waveform.rs, driven from src/main.rs).                   *)
(*                                                                         *)
(* f32 values are modelled as exact rationals <<n, d>> (d > 0, reduced)    *)
(* plus NaN; f32 rounding is not modelled.  The inputs are chosen so that  *)
(* every sin/asin the code evaluates has a closed-form value: pitches 9    *)
(* and 21 (13.75 Hz and 27.5 Hz) at 55 samples per second put every        *)
(* sample on a quarter turn.                                               *)
(***************************************************************************)
EXTENDS Integers, Sequences, FiniteSets, TLC

VARIABLES
    \* one generate_wave_from_packets call
    packets, bpm, sample_rate, pc,
    seconds_per_beat, song_duration_sec, song_duration_samples,
    waveform, sample_index, packet_index, notes,
    \* one generate_waveform call
    gw_packet, gw_amount, gw_out, gw_pc,
    \* normalize_waveform applied twice to one buffer
    nz_in, nz_once, nz_twice, nz_pc,
    \* add_note_waveform applied to two notes in both orders
    mx_buf, mx_a, mx_start_a, mx_b, mx_start_b, mx_ab, mx_ba, mx_pc,
    \* threads calling generate_piano_sample
    INIT, PROMINENT_FREQUENCIES, file_ok, tpc, calls, load_runs, table_writes

synthVars == <<packets, bpm, sample_rate, pc, seconds_per_beat, song_duration_sec,
               song_duration_samples, waveform, sample_index, packet_index, notes>>

waveVars == <<gw_packet, gw_amount, gw_out, gw_pc>>

normVars == <<nz_in, nz_once, nz_twice, nz_pc>>

mixVars == <<mx_buf, mx_a, mx_start_a, mx_b, mx_start_b, mx_ab, mx_ba, mx_pc>>

onceVars == <<INIT, PROMINENT_FREQUENCIES, file_ok, tpc, calls, load_runs, table_writes>>

vars == <<synthVars, waveVars, normVars, mixVars, onceVars>>

(***************************************************************************)
(* f32 arithmetic over exact rationals                                     *)
(***************************************************************************)
NaN == <<0, 0>>

Abs(x) == IF x < 0 THEN -x ELSE x

RECURSIVE GCD(_, _)
GCD(a, b) == IF b = 0 THEN a ELSE GCD(b, a % b)

\* the rational n/d in lowest terms with a positive denominator
Q(n, d) ==
    IF d = 0 THEN NaN
    ELSE LET g == GCD(Abs(n), Abs(d))
             s == IF d < 0 THEN -1 ELSE 1
         IN  <<(s * n) \div g, (s * d) \div g>>

Zero == <<0, 1>>
One == <<1, 1>>

IsNaN(x) == x[2] = 0

FAdd(a, b) == IF IsNaN(a) \/ IsNaN(b) THEN NaN ELSE Q(a[1] * b[2] + b[1] * a[2], a[2] * b[2])

FMul(a, b) == IF IsNaN(a) \/ IsNaN(b) THEN NaN ELSE Q(a[1] * b[1], a[2] * b[2])

\* the model never divides by zero (tempo 0 is outside its inputs)
FDiv(a, b) == IF IsNaN(a) \/ IsNaN(b) THEN NaN ELSE Q(a[1] * b[2], a[2] * b[1])

\* a > b; false when either is NaN
FGt(a, b) == ~IsNaN(a) /\ ~IsNaN(b) /\ a[1] * b[2] > b[1] * a[2]

FAbs(a) == IF IsNaN(a) THEN NaN ELSE <<Abs(a[1]), a[2]>>

\* f32::max: a NaN operand is ignored
FMax(a, b) == IF IsNaN(a) THEN b ELSE IF IsNaN(b) THEN a ELSE IF FGt(b, a) THEN b ELSE a

\* `x as usize` / `x as u32`: truncation toward zero, saturating, NaN to 0
AsUsize(x) == IF IsNaN(x) \/ x[1] < 0 THEN 0 ELSE x[1] \div x[2]

(***************************************************************************)
(* Option<usize>                                                           *)
(***************************************************************************)
None == <<>>
Some(x) == <<x>>

(***************************************************************************)
(* Timbre synthesis: generate_waveform                                     *)
(***************************************************************************)
ZeroStopAfter == 1000

RECURSIVE Pow2(_)
Pow2(e) == IF e = 0 THEN One
           ELSE IF e > 0 THEN FMul(Q(2, 1), Pow2(e - 1))
           ELSE FMul(Q(1, 2), Pow2(e + 1))

\* 440.0 * 2^((pitch - 69) / 12), for the pitches a whole number of octaves from 69
Frequency(pitch) == FMul(Q(440, 1), Pow2((pitch - 69) \div 12))

\* sin(2 pi x) for x a whole number of quarter turns
Sin2Pi(x) ==
    LET k == ((4 * x[1]) \div x[2]) % 4
    IN  CASE k = 0 -> Zero
          [] k = 1 -> One
          [] k = 2 -> Zero
          [] k = 3 -> Q(-1, 1)

\* asin(2 pi x) for x = 0 or x >= 1/4: the argument of asin is then 0 or above 1
Asin2Pi(x) == IF x = Zero THEN Zero ELSE NaN

\* x % 1.0 for x >= 0
Fmod1(x) == Q(x[1] % x[2], x[2])

TimbreSample(instrument, frequency, time) ==
    LET turns == FMul(frequency, time)
    IN  CASE instrument = "Sine" -> Sin2Pi(turns)
          [] instrument = "Square" -> IF FGt(Sin2Pi(turns), Zero) THEN One ELSE Q(-1, 1)
          [] instrument = "Triangle" -> Asin2Pi(turns)
          [] instrument = "Saw" -> FAdd(FMul(Q(2, 1), Fmod1(turns)), Q(-1, 1))

RECURSIVE WaveformLoop(_, _, _, _, _)
WaveformLoop(packet, t, sample_amount_temp, rate, samples) ==
    IF t >= sample_amount_temp THEN samples
    ELSE LET time == Q(t, rate)
             sample == FMul(TimbreSample(packet.instrument, Frequency(packet.pitch), time),
                            packet.velocity)
         IN  IF t > ZeroStopAfter /\ sample = Zero THEN samples
             ELSE WaveformLoop(packet, t + 1, sample_amount_temp, rate, Append(samples, sample))

generate_waveform(packet, sample_amount, rate) ==
    WaveformLoop(packet, 0, AsUsize(FMul(Q(sample_amount, 1), Q(3, 2))), rate, <<>>)

(***************************************************************************)
(* Timing                                                                  *)
(***************************************************************************)
SecondsPerBeat(tempo) == FDiv(Q(60, 1), Q(tempo, 1))

\* (packet.note_delta * seconds_per_beat * sample_rate as f32) as usize
DeltaSamples(packet, tempo, rate) ==
    AsUsize(FMul(FMul(packet.note_delta, SecondsPerBeat(tempo)), Q(rate, 1)))

RECURSIVE SumSeconds(_, _, _)
SumSeconds(ps, k, tempo) ==
    IF k = 0 THEN Zero
    ELSE FAdd(SumSeconds(ps, k - 1, tempo), FMul(ps[k].note_delta, SecondsPerBeat(tempo)))

calculate_song_duration(ps, tempo, rate) ==
    LET sec == SumSeconds(ps, Len(ps), tempo)
    IN  <<sec, AsUsize(FMul(sec, Q(rate, 1)))>>

(***************************************************************************)
(* Note pairing: calculate_note_duration                                   *)
(***************************************************************************)
Matches(next_packet, start_packet) ==
    /\ next_packet.pitch = start_packet.pitch
    /\ next_packet.instrument = start_packet.instrument
    /\ next_packet.note_status = "Off"

RECURSIVE NoteDurationScan(_, _, _, _, _, _)
NoteDurationScan(ps, start_index, k, tempo, rate, acc) ==
    IF k > Len(ps) THEN None
    ELSE LET note_duration_samples == acc + DeltaSamples(ps[k], tempo, rate)
         IN  IF Matches(ps[k], ps[start_index]) THEN Some(note_duration_samples)
             ELSE NoteDurationScan(ps, start_index, k + 1, tempo, rate, note_duration_samples)

\* variant: the On event's own delta is counted too
calculate_note_duration_from_on(ps, start_index, tempo, rate) ==
    NoteDurationScan(ps, start_index, start_index + 1, tempo, rate,
                     DeltaSamples(ps[start_index], tempo, rate))

\* variant: a note with no Off event lasts to the end of the sequence
RECURSIVE NoteDurationScanToEnd(_, _, _, _, _, _)
NoteDurationScanToEnd(ps, start_index, k, tempo, rate, acc) ==
    IF k > Len(ps) THEN Some(acc)
    ELSE LET note_duration_samples == acc + DeltaSamples(ps[k], tempo, rate)
         IN  IF Matches(ps[k], ps[start_index]) THEN Some(note_duration_samples)
             ELSE NoteDurationScanToEnd(ps, start_index, k + 1, tempo, rate,
                                        note_duration_samples)

calculate_note_duration_to_end(ps, start_index, tempo, rate) ==
    NoteDurationScanToEnd(ps, start_index, start_index + 1, tempo, rate, 0)

\* variant: nesting-aware pairing, a repeated On of the same voice opens a new level
RECURSIVE NoteDurationScanNested(_, _, _, _, _, _, _)
NoteDurationScanNested(ps, start_index, k, tempo, rate, acc, depth) ==
    IF k > Len(ps) THEN None
    ELSE LET note_duration_samples == acc + DeltaSamples(ps[k], tempo, rate)
             same_voice == /\ ps[k].pitch = ps[start_index].pitch
                           /\ ps[k].instrument = ps[start_index].instrument
         IN  IF same_voice /\ ps[k].note_status = "Off" /\ depth = 0
             THEN Some(note_duration_samples)
             ELSE NoteDurationScanNested(ps, start_index, k + 1, tempo, rate,
                      note_duration_samples,
                      IF ~same_voice THEN depth
                      ELSE IF ps[k].note_status = "On" THEN depth + 1 ELSE depth - 1)

calculate_note_duration_nested(ps, start_index, tempo, rate) ==
    NoteDurationScanNested(ps, start_index, start_index + 1, tempo, rate, 0, 0)

calculate_note_duration(ps, start_index, tempo, rate) ==
    NoteDurationScan(ps, start_index, start_index + 1, tempo, rate, 0)

(***************************************************************************)
(* Mixing and normalisation                                                *)
(***************************************************************************)
\* variant: the note is written one sample early
add_note_waveform_early(w, note_waveform, start_index) ==
    [p \in 1..Len(w) |->
        IF p >= start_index /\ p - start_index < Len(note_waveform)
        THEN FAdd(w[p], note_waveform[p - start_index + 1])
        ELSE w[p]]

\* variant: `=` in place of `+=`
add_note_waveform_overwrite(w, note_waveform, start_index) ==
    [p \in 1..Len(w) |->
        IF p > start_index /\ p - start_index <= Len(note_waveform)
        THEN note_waveform[p - start_index]
        ELSE w[p]]

add_note_waveform(w, note_waveform, start_index) ==
    [p \in 1..Len(w) |->
        IF p > start_index /\ p - start_index <= Len(note_waveform)
        THEN FAdd(w[p], note_waveform[p - start_index])
        ELSE w[p]]

RECURSIVE FoldMax(_, _, _)
FoldMax(w, k, acc) == IF k > Len(w) THEN acc ELSE FoldMax(w, k + 1, FMax(acc, w[k]))

\* variant: no floor of 1.0 on the peak
MaxAmplitude_no_floor(w) == FoldMax(w, 1, Zero)

MaxAmplitude(w) == FMax(FoldMax(w, 1, Zero), One)

normalize_waveform(w) ==
    LET max_amplitude == MaxAmplitude(w)
    IN  IF FGt(max_amplitude, Zero)
        THEN [p \in 1..Len(w) |-> FDiv(w[p], max_amplitude)]
        ELSE w

(***************************************************************************)
(* Inputs                                                                  *)
(***************************************************************************)
MaxPackets == 3

Voices == { [pitch |-> 9,  instrument |-> "Square", velocity |-> One],
            [pitch |-> 21, instrument |-> "Square", velocity |-> Q(1, 2)],
            [pitch |-> 9,  instrument |-> "Saw",    velocity |-> One] }

\* beats; at 60 bpm and 55 samples per second 1/22 beat is 2.5 samples
Deltas == { Zero, Q(1, 22) }

PacketPool ==
    { [pitch |-> v.pitch, instrument |-> v.instrument, note_status |-> s,
       note_delta |-> d, velocity |-> v.velocity] :
      v \in Voices, s \in {"On", "Off"}, d \in Deltas }

Bpms == { 60, -60 }

SampleRates == { 55 }

SeqsUpTo(S, n) == UNION { [1..k -> S] : k \in 0..n }

Unset == <<>>

(***************************************************************************)
(* The parts a specification does not exercise stay as constructed         *)
(***************************************************************************)
SynthIdle ==
    /\ packets = <<>> /\ bpm = 60 /\ sample_rate = 55 /\ pc = "idle"
    /\ seconds_per_beat = Unset /\ song_duration_sec = Unset
    /\ song_duration_samples = 0 /\ waveform = <<>>
    /\ sample_index = 0 /\ packet_index = 1 /\ notes = <<>>

WaveIdle == gw_packet = Unset /\ gw_amount = 0 /\ gw_out = <<>> /\ gw_pc = "idle"

NormIdle == nz_in = <<>> /\ nz_once = <<>> /\ nz_twice = <<>> /\ nz_pc = "idle"

MixIdle ==
    /\ mx_buf = <<>> /\ mx_a = <<>> /\ mx_start_a = 0 /\ mx_b = <<>> /\ mx_start_b = 0
    /\ mx_ab = <<>> /\ mx_ba = <<>> /\ mx_pc = "idle"

OnceIdle ==
    /\ INIT = "incomplete" /\ PROMINENT_FREQUENCIES = None /\ file_ok = TRUE
    /\ tpc = <<>> /\ calls = <<>> /\ load_runs = 0 /\ table_writes = 0

(***************************************************************************)
(* generate_wave_from_packets, one loop iteration per step                 *)
(***************************************************************************)
SynthInit ==
    /\ packets \in SeqsUpTo(PacketPool, MaxPackets)
    /\ bpm \in Bpms
    /\ sample_rate \in SampleRates
    /\ pc = "start"
    /\ seconds_per_beat = Unset
    /\ song_duration_sec = Unset
    /\ song_duration_samples = 0
    /\ waveform = <<>>
    /\ sample_index = 0
    /\ packet_index = 1
    /\ notes = <<>>

\* calculate_song_duration and the allocation of the zeroed buffer
Start ==
    /\ pc = "start"
    /\ LET d == calculate_song_duration(packets, bpm, sample_rate)
       IN  /\ song_duration_sec' = d[1]
           /\ song_duration_samples' = d[2]
           /\ waveform' = [p \in 1..d[2] |-> Zero]
    /\ seconds_per_beat' = SecondsPerBeat(bpm)
    /\ pc' = IF Len(packets) = 0 THEN "normalize" ELSE "loop"
    /\ UNCHANGED <<packets, bpm, sample_rate, sample_index, packet_index, notes>>
    /\ UNCHANGED <<waveVars, normVars, mixVars, onceVars>>

\* one iteration of `for (packet_index, packet) in packets.iter().enumerate()`
ProcessPacket ==
    /\ pc = "loop"
    /\ LET packet == packets[packet_index]
           idx == sample_index + DeltaSamples(packet, bpm, sample_rate)
           skipped == packet.note_status = "Off" \/ packet_index = Len(packets)
           duration == IF skipped THEN None
                       ELSE calculate_note_duration(packets, packet_index, bpm, sample_rate)
       IN  /\ sample_index' = idx
           /\ IF duration = None
              THEN UNCHANGED <<waveform, notes>>
              ELSE LET note_waveform == generate_waveform(packet, duration[1], sample_rate)
                   IN  /\ waveform' = add_note_waveform(waveform, note_waveform, idx)
                       /\ notes' = Append(notes, [on |-> packet_index, start |-> idx,
                                                  duration |-> duration[1],
                                                  wave |-> note_waveform])
    /\ packet_index' = packet_index + 1
    /\ pc' = IF packet_index = Len(packets) THEN "normalize" ELSE "loop"
    /\ UNCHANGED <<packets, bpm, sample_rate, seconds_per_beat, song_duration_sec,
                   song_duration_samples>>
    /\ UNCHANGED <<waveVars, normVars, mixVars, onceVars>>

Normalize ==
    /\ pc = "normalize"
    /\ waveform' = normalize_waveform(waveform)
    /\ pc' = "done"
    /\ UNCHANGED <<packets, bpm, sample_rate, seconds_per_beat, song_duration_sec,
                   song_duration_samples, sample_index, packet_index, notes>>
    /\ UNCHANGED <<waveVars, normVars, mixVars, onceVars>>

Init == SynthInit /\ WaveIdle /\ NormIdle /\ MixIdle /\ OnceIdle

Next == Start \/ ProcessPacket \/ Normalize

Spec == Init /\ [][Next]_vars

(***************************************************************************)
(* What the specification says of a call, stated over the inputs           *)
(***************************************************************************)
IsOn(i) == packets[i].note_status = "On"

MatchingOffs(i) ==
    { j \in (i + 1)..Len(packets) :
        /\ packets[j].pitch = packets[i].pitch
        /\ packets[j].instrument = packets[i].instrument
        /\ packets[j].note_status = "Off" }

HasOff(i) == MatchingOffs(i) # {}

FirstOff(i) == CHOOSE j \in MatchingOffs(i) : \A k \in MatchingOffs(i) : j <= k

\* sum over events a..b of each event's delta in samples, truncated one by one
RECURSIVE SumDeltaSamples(_, _)
SumDeltaSamples(a, b) ==
    IF a > b THEN 0
    ELSE SumDeltaSamples(a, b - 1)
         + AsUsize(FMul(FMul(packets[b].note_delta, FDiv(Q(60, 1), Q(bpm, 1))),
                        Q(sample_rate, 1)))

\* the notes the orchestrator resolves: On, not the final event, with an Off
Resolved == { i \in 1..Len(packets) : IsOn(i) /\ i < Len(packets) /\ HasOff(i) }

NoteAt(i) == CHOOSE k \in 1..Len(notes) : notes[k].on = i

Synthesized(i) == \E k \in 1..Len(notes) : notes[k].on = i

PositiveTempo == bpm > 0

\* C1: every sample of the returned buffer has absolute value <= 1.0
C1_ReturnedPeakAtMostOne ==
    pc = "done" =>
        \A p \in 1..Len(waveform) :
            ~IsNaN(waveform[p]) /\ ~FGt(FAbs(waveform[p]), One)

\* C2: with bpm <= 0 the call is rejected: 60 / bpm is never evaluated and
\* no waveform is returned
C2_NonPositiveTempoRejected ==
    ~PositiveTempo => (seconds_per_beat = Unset /\ pc # "done")

\* C4: the duration resolved for an On event at i is the sum of the
\* individually truncated deltas of the events i+1 .. j, j its first Off
C4_DurationIsSumToFirstOff ==
    \A k \in 1..Len(notes) :
        LET i == notes[k].on
        IN  /\ IsOn(i) /\ HasOff(i)
            /\ notes[k].duration = SumDeltaSamples(i + 1, FirstOff(i))
            /\ calculate_note_duration(packets, i, bpm, sample_rate)
                   = Some(SumDeltaSamples(i + 1, FirstOff(i)))

C4_Witness ==
    \E k \in 1..Len(notes) :
        LET i == notes[k].on
        IN  /\ FirstOff(i) > i + 1
            /\ FGt(packets[i].note_delta, Zero)
            /\ notes[k].duration = 4
            /\ AsUsize(FMul(FMul(FAdd(packets[i + 1].note_delta, packets[i + 2].note_delta),
                                  FDiv(Q(60, 1), Q(bpm, 1))), Q(sample_rate, 1))) = 5

\* the loop step of an On event with no later Off of its voice leaves the
\* buffer as it was and synthesizes nothing
C5_UnmatchedOnFrame ==
    [][ (pc = "loop" /\ IsOn(packet_index) /\ ~HasOff(packet_index))
            => (waveform' = waveform /\ notes' = notes) ]_vars

\* a sequence of only such events gives an all-zero buffer of the length
\* computed from the deltas
C5_OnlyUnmatchedIsSilence ==
    (pc \in {"normalize", "done"} /\ \A i \in 1..Len(packets) : IsOn(i) /\ ~HasOff(i))
        => /\ Len(waveform) = AsUsize(FMul(SumSeconds(packets, Len(packets), bpm),
                                            Q(sample_rate, 1)))
           /\ \A p \in 1..Len(waveform) : waveform[p] = Zero
           /\ notes = <<>>

\* C5: both parts: the step of an unmatched On event changes neither the
\* buffer nor the set of synthesized notes, and a sequence of only unmatched
\* On events always ends as silence of the computed length
C5_UnmatchedOn == C5_UnmatchedOnFrame /\ []C5_OnlyUnmatchedIsSilence

C5_Witness ==
    /\ pc = "done" /\ PositiveTempo
    /\ Len(waveform) >= 5
    /\ \A i \in 1..Len(packets) : IsOn(i) /\ ~HasOff(i)
    /\ \E i \in 1..Len(packets) : i < Len(packets) /\ packets[i].velocity = One

\* C9: two On events of one voice that both precede the voice's next Off
\* are both paired with that Off, and both are synthesized and mixed
StackedOns ==
    { pair \in (1..Len(packets)) \X (1..Len(packets)) :
        /\ pair[1] < pair[2]
        /\ IsOn(pair[1]) /\ IsOn(pair[2])
        /\ packets[pair[1]].pitch = packets[pair[2]].pitch
        /\ packets[pair[1]].instrument = packets[pair[2]].instrument
        /\ HasOff(pair[2])
        /\ FirstOff(pair[1]) > pair[2] }

C9_FirstMatchWins ==
    \A pair \in StackedOns :
        packet_index > pair[2] =>
            /\ Synthesized(pair[1]) /\ Synthesized(pair[2])
            /\ LET n1 == notes[NoteAt(pair[1])]
                   n2 == notes[NoteAt(pair[2])]
               IN  /\ n1.start + n1.duration = n2.start + n2.duration
                   /\ n1.duration = SumDeltaSamples(pair[1] + 1, FirstOff(pair[2]))

C9_Witness ==
    /\ pc = "normalize" /\ PositiveTempo
    /\ \E pair \in StackedOns :
          /\ notes[NoteAt(pair[2])].duration > 0
          /\ notes[NoteAt(pair[1])].duration > notes[NoteAt(pair[2])].duration
          /\ \E p \in 1..Len(waveform) : FGt(FAbs(waveform[p]), One)

\* C10: before normalization the buffer has the allocated length and holds,
\* at each index, the sum over the resolved notes of the note's sample there
ExpectedStart(i) == SumDeltaSamples(1, i)

ExpectedWave(i) ==
    generate_waveform(packets[i], SumDeltaSamples(i + 1, FirstOff(i)), sample_rate)

RECURSIVE ExpectedMix(_, _)
ExpectedMix(p, i) ==
    IF i = 0 THEN Zero
    ELSE LET rest == ExpectedMix(p, i - 1)
             local == p - ExpectedStart(i)
         IN  IF i \in Resolved /\ local >= 1 /\ local <= Len(ExpectedWave(i))
             THEN FAdd(rest, ExpectedWave(i)[local])
             ELSE rest

C10_MixedBufferIsSumOfNotes ==
    pc = "normalize" =>
        /\ Len(waveform) = song_duration_samples
        /\ DOMAIN waveform = 1..song_duration_samples
        /\ \A p \in 1..Len(waveform) : waveform[p] = ExpectedMix(p, Len(packets))

C10_Witness ==
    /\ pc = "normalize"
    /\ Len(notes) >= 2
    /\ \E k \in 1..Len(notes) : notes[k].start + Len(notes[k].wave) > Len(waveform)
    /\ \E k \in 1..Len(notes) : notes[k].start > 0
    /\ \E p \in 1..Len(waveform) : waveform[p] # Zero

(***************************************************************************)
(* generate_waveform on its own                                            *)
(***************************************************************************)
MaxSampleAmount == 4

WavePackets ==
    { [pitch |-> p, instrument |-> i, note_status |-> "On", note_delta |-> Zero,
       velocity |-> v] :
      p \in {9, 21}, i \in {"Sine", "Square", "Triangle", "Saw"},
      v \in {Zero, Q(1, 2), One} }

WaveInit ==
    /\ gw_packet \in WavePackets
    /\ gw_amount \in 0..MaxSampleAmount
    /\ gw_out = <<>>
    /\ gw_pc = "call"

GenerateWaveform ==
    /\ gw_pc = "call"
    /\ gw_out' = generate_waveform(gw_packet, gw_amount, 55)
    /\ gw_pc' = "returned"
    /\ UNCHANGED <<gw_packet, gw_amount, synthVars, normVars, mixVars, onceVars>>

InitWave == WaveInit /\ SynthIdle /\ NormIdle /\ MixIdle /\ OnceIdle

NextWave == GenerateWaveform

SpecWave == InitWave /\ [][NextWave]_vars

\* C6: for Sine, Square, Triangle and Saw, generate_waveform(n) returns
\* exactly n samples
C6_ClosedFormLengthIsRequested ==
    (gw_pc = "returned"
        /\ gw_packet.instrument \in {"Sine", "Square", "Triangle", "Saw"})
        => Len(gw_out) = gw_amount

(***************************************************************************)
(* normalize_waveform on its own                                           *)
(***************************************************************************)
MaxBuffer == 2

NormSamples == { Q(-2, 1), Q(-1, 2), Zero, Q(1, 2), One, Q(3, 1), NaN }

NormInit ==
    /\ nz_in \in SeqsUpTo(NormSamples, MaxBuffer + 1)
    /\ nz_once = <<>>
    /\ nz_twice = <<>>
    /\ nz_pc = "first"

NormalizeOnce ==
    /\ nz_pc = "first"
    /\ nz_once' = normalize_waveform(nz_in)
    /\ nz_pc' = "second"
    /\ UNCHANGED <<nz_in, nz_twice, synthVars, waveVars, mixVars, onceVars>>

NormalizeAgain ==
    /\ nz_pc = "second"
    /\ nz_twice' = normalize_waveform(nz_once)
    /\ nz_pc' = "done"
    /\ UNCHANGED <<nz_in, nz_once, synthVars, waveVars, mixVars, onceVars>>

InitNorm == NormInit /\ SynthIdle /\ WaveIdle /\ MixIdle /\ OnceIdle

NextNorm == NormalizeOnce \/ NormalizeAgain

SpecNorm == InitNorm /\ [][NextNorm]_vars

PeakAtMostOne(w) ==
    \A p \in 1..Len(w) : ~IsNaN(w[p]) /\ ~FGt(FAbs(w[p]), One)

\* the factor that takes sample x to sample y is at least 1.0: y is x scaled
\* toward zero (or both are NaN)
ScaledDown(x, y) ==
    IF IsNaN(x) THEN IsNaN(y)
    ELSE /\ ~IsNaN(y)
         /\ ~FGt(FAbs(y), FAbs(x))
         /\ (x[1] > 0) = (y[1] > 0) /\ (x[1] < 0) = (y[1] < 0)

\* C7: normalize_waveform divides by a factor >= 1.0, leaves a buffer of
\* peak <= 1.0 unchanged, and applied twice gives what it gives applied once
C7_NormalizeIdempotent ==
    /\ nz_pc \in {"second", "done"} =>
          /\ Len(nz_once) = Len(nz_in)
          /\ \A p \in 1..Len(nz_in) : ScaledDown(nz_in[p], nz_once[p])
          /\ (PeakAtMostOne(nz_in) => nz_once = nz_in)
    /\ nz_pc = "done" => nz_twice = nz_once

C7_Witness ==
    /\ nz_pc = "done"
    /\ nz_once # nz_in
    /\ \E p \in 1..Len(nz_in) : nz_in[p] = Q(3, 1)
    /\ \E p \in 1..Len(nz_in) : nz_in[p] = Q(-2, 1)

(***************************************************************************)
(* add_note_waveform on its own: two notes, both orders                    *)
(***************************************************************************)
MixInit ==
    /\ mx_buf \in SeqsUpTo({Zero, One}, MaxBuffer)
    /\ mx_a \in SeqsUpTo({Q(-1, 1), Q(1, 2)}, MaxBuffer)
    /\ mx_b \in SeqsUpTo({Q(-1, 1), Q(1, 2)}, MaxBuffer)
    /\ mx_start_a \in 0..MaxBuffer
    /\ mx_start_b \in 0..MaxBuffer
    /\ mx_ab = mx_buf
    /\ mx_ba = mx_buf
    /\ mx_pc = "a_first"

MixUnchanged == UNCHANGED <<mx_buf, mx_a, mx_start_a, mx_b, mx_start_b,
                            synthVars, waveVars, normVars, onceVars>>

MixAFirst ==
    /\ mx_pc = "a_first"
    /\ mx_ab' = add_note_waveform(mx_ab, mx_a, mx_start_a)
    /\ mx_pc' = "b_second"
    /\ UNCHANGED mx_ba /\ MixUnchanged

MixBSecond ==
    /\ mx_pc = "b_second"
    /\ mx_ab' = add_note_waveform(mx_ab, mx_b, mx_start_b)
    /\ mx_pc' = "b_first"
    /\ UNCHANGED mx_ba /\ MixUnchanged

MixBFirst ==
    /\ mx_pc = "b_first"
    /\ mx_ba' = add_note_waveform(mx_ba, mx_b, mx_start_b)
    /\ mx_pc' = "a_second"
    /\ UNCHANGED mx_ab /\ MixUnchanged

MixASecond ==
    /\ mx_pc = "a_second"
    /\ mx_ba' = add_note_waveform(mx_ba, mx_a, mx_start_a)
    /\ mx_pc' = "done"
    /\ UNCHANGED mx_ab /\ MixUnchanged

InitMix == MixInit /\ SynthIdle /\ WaveIdle /\ NormIdle /\ OnceIdle

NextMix == MixAFirst \/ MixBSecond \/ MixBFirst \/ MixASecond

SpecMix == InitMix /\ [][NextMix]_vars

\* C8: mixing note A then note B gives the same buffer as mixing B then A
C8_MixOrderIndependent ==
    mx_pc = "done" => mx_ab = mx_ba

C8_Witness ==
    /\ mx_pc = "done"
    /\ mx_a # mx_b
    /\ Len(mx_a) = 2 /\ Len(mx_b) = 2
    /\ mx_start_a = 0 /\ mx_start_b = 1
    /\ Len(mx_buf) = 2
    /\ mx_ab[2] # mx_buf[2]

(***************************************************************************)
(* The overtone table: INIT.call_once around load_prominent_frequencies    *)
(***************************************************************************)
NumThreads == 3

MaxCalls == 2

Threads == 1..NumThreads

\* rows of piano_overtones.csv after the header: (frequency, amplitude)
OvertoneRows == << <<One, One>>, <<Q(2, 1), Q(1, 2)>> >>

OnceInit ==
    /\ INIT = "incomplete"
    /\ PROMINENT_FREQUENCIES = None
    /\ file_ok \in BOOLEAN
    /\ tpc = [t \in Threads |-> "idle"]
    /\ calls = [t \in Threads |-> 0]
    /\ load_runs = 0
    /\ table_writes = 0

OnceOthers == UNCHANGED <<file_ok, synthVars, waveVars, normVars, mixVars>>

\* variant: an unsynchronised "is the table still empty" test
CallOnceMustRun_unguarded == PROMINENT_FREQUENCIES = None

\* call_once runs the closure for the caller that finds INIT incomplete
CallOnceMustRun == INIT = "incomplete"

\* a thread enters generate_piano_sample
CallPianoSample(t) ==
    /\ tpc[t] = "idle"
    /\ calls[t] < MaxCalls
    /\ tpc' = [tpc EXCEPT ![t] = "call_once"]
    /\ calls' = [calls EXCEPT ![t] = @ + 1]
    /\ UNCHANGED <<INIT, PROMINENT_FREQUENCIES, load_runs, table_writes>>
    /\ OnceOthers

\* INIT.call_once: this caller runs load_prominent_frequencies
CallOnceRun(t) ==
    /\ tpc[t] = "call_once"
    /\ CallOnceMustRun
    /\ INIT' = "running"
    /\ load_runs' = load_runs + 1
    /\ tpc' = [tpc EXCEPT ![t] = "loading"]
    /\ UNCHANGED <<PROMINENT_FREQUENCIES, calls, table_writes>>
    /\ OnceOthers

\* INIT.call_once: already complete, return at once (a caller that finds it
\* running blocks: no step)
CallOnceSkip(t) ==
    /\ tpc[t] = "call_once"
    /\ ~CallOnceMustRun
    /\ INIT = "complete"
    /\ tpc' = [tpc EXCEPT ![t] = "read"]
    /\ UNCHANGED <<INIT, PROMINENT_FREQUENCIES, calls, load_runs, table_writes>>
    /\ OnceOthers

\* INIT.call_once on a poisoned Once panics
CallOncePoisoned(t) ==
    /\ tpc[t] = "call_once"
    /\ INIT = "poisoned"
    /\ tpc' = [tpc EXCEPT ![t] = "panicked"]
    /\ UNCHANGED <<INIT, PROMINENT_FREQUENCIES, calls, load_runs, table_writes>>
    /\ OnceOthers

\* load_prominent_frequencies: the file cannot be opened or parsed
LoadPanics(t) ==
    /\ tpc[t] = "loading"
    /\ ~file_ok
    /\ INIT' = "poisoned"
    /\ tpc' = [tpc EXCEPT ![t] = "panicked"]
    /\ UNCHANGED <<PROMINENT_FREQUENCIES, calls, load_runs, table_writes>>
    /\ OnceOthers

\* load_prominent_frequencies: PROMINENT_FREQUENCIES = Some(frequencies)
LoadStores(t) ==
    /\ tpc[t] = "loading"
    /\ file_ok
    /\ PROMINENT_FREQUENCIES' = Some(OvertoneRows)
    /\ table_writes' = table_writes + 1
    /\ tpc' = [tpc EXCEPT ![t] = "loaded"]
    /\ UNCHANGED <<INIT, calls, load_runs>>
    /\ OnceOthers

\* the closure returns and call_once marks INIT complete
CallOnceCompletes(t) ==
    /\ tpc[t] = "loaded"
    /\ INIT' = "complete"
    /\ tpc' = [tpc EXCEPT ![t] = "read"]
    /\ UNCHANGED <<PROMINENT_FREQUENCIES, calls, load_runs, table_writes>>
    /\ OnceOthers

\* PROMINENT_FREQUENCIES.as_ref().expect(..) and the rest of the function
ReadTable(t) ==
    /\ tpc[t] = "read"
    /\ tpc' = [tpc EXCEPT ![t] = IF PROMINENT_FREQUENCIES = None THEN "panicked" ELSE "idle"]
    /\ UNCHANGED <<INIT, PROMINENT_FREQUENCIES, calls, load_runs, table_writes>>
    /\ OnceOthers

OnceNext ==
    \E t \in Threads :
        \/ CallPianoSample(t)
        \/ CallOnceRun(t)
        \/ CallOnceSkip(t)
        \/ CallOncePoisoned(t)
        \/ LoadPanics(t)
        \/ LoadStores(t)
        \/ CallOnceCompletes(t)
        \/ ReadTable(t)

InitOnce == OnceInit /\ SynthIdle /\ WaveIdle /\ NormIdle /\ MixIdle

SpecOnce == InitOnce /\ [][OnceNext]_vars

\* C3: load_prominent_frequencies runs at most once, nobody reads the table
\* before the load has completed, and the table is written at most once
C3_SingleInitialization ==
    /\ load_runs <= 1
    /\ table_writes <= 1
    /\ Cardinality({ t \in Threads : tpc[t] \in {"loading", "loaded"} }) <= 1
    /\ \A t \in Threads :
          tpc[t] = "read" => (INIT = "complete" /\ PROMINENT_FREQUENCIES = Some(OvertoneRows))
    /\ INIT = "complete" => PROMINENT_FREQUENCIES = Some(OvertoneRows)

C3_Witness ==
    /\ load_runs = 1
    /\ \A t \in Threads : calls[t] = MaxCalls /\ tpc[t] = "idle"
====
